---- MODULE Spec2Model ----
(***************************************************************************)
(* A model of the e-book reader: the navigation of App.tsx and the         *)
(* narration (text-to-speech) controller of the Reader component, together *)
(* with the browser's speech synthesis facility it drives.                 *)
(*                                                                         *)
(* A step of the model is one browser task: a user event handler run to    *)
(* completion (with the render and the effects it causes), or one          *)
(* notification of the speech synthesis facility delivered to its handler. *)
(* The facility works asynchronously: it posts its notifications           *)
(* (boundary, end, error) as tasks, which are delivered later, in order.   *)
(***************************************************************************)
EXTENDS Integers, Sequences, FiniteSets, TLC

\* ------------------------------------------------------------------------
\* Bounds of the model
\* ------------------------------------------------------------------------

\* Notifications the host has posted and the page has not yet handled.
MaxPending == 2

\* The largest character offset a boundary notification reports; larger
\* than the length of every narration text of the model.
MaxCharIndex == 40

\* Sections of the largest book the navigation is explored over.
MaxSections == 4

\* Content blocks of the longest section the narration text is built from.
MaxBlocks == 3

\* Sections of the book the bookmarks are explored over: the longest list
\* of bookmarks a session builds by toggling.
MaxBookmarks == 3

\* ------------------------------------------------------------------------
\* Content model (types: part_000; the data itself is ./bookData)
\* ------------------------------------------------------------------------

Null == [null |-> TRUE]

TOC == "TOC"

Plain(t) == [type |-> "string", text |-> t]

Header(t) == [type |-> "header", text |-> t]

List(its) == [type |-> "list", items |-> its]

Quote(t) == [type |-> "quote", text |-> t]

Footnote(t) == [type |-> "footnote", text |-> t]

BookSection(i, t, c) == [id |-> i, title |-> t, content |-> c]

BookChapter(i, t, s) == [id |-> i, title |-> t, sections |-> s]

\* The identifier the application starts on (App.tsx, useState('intro-1')).
StartId == "intro-1"

TitlePool == << "T", "", "Q", "L" >>

ContentPool ==
    << << Plain("Intro."), List(<< "a", "b" >>), Footnote("skip me") >>,
       << >>,
       << Header("H"), Quote("q"), Footnote("f") >>,
       << List(<< >>), Plain("p") >> >>

\* The i-th section of the model's books: identifiers are unique, the first
\* is the identifier the application starts on.
Section(i) ==
    BookSection(IF i = 1 THEN StartId ELSE "s" \o ToString(i),
                TitlePool[((i - 1) % Len(TitlePool)) + 1],
                ContentPool[((i - 1) % Len(ContentPool)) + 1])

\* The book the narration is explored over.
PlaybackBooks ==
    { << BookChapter("c1", "One", << Section(1) >>),
         BookChapter("c2", "Two", << Section(2) >>) >> }

\* Sections lo..hi in document order, a chapter ending after each section
\* of cuts.
RECURSIVE ChaptersOf(_, _, _)
ChaptersOf(lo, hi, cuts) ==
    IF lo > hi THEN << >>
    ELSE LET end == CHOOSE e \in lo..hi :
                        /\ e \in cuts \/ e = hi
                        /\ \A j \in lo..(e - 1) : j \notin cuts
         IN  << BookChapter("c" \o ToString(lo), "Chapter " \o ToString(lo),
                            [i \in 1..(end - lo + 1) |-> Section(lo + i - 1)]) >>
             \o ChaptersOf(end + 1, hi, cuts)

\* The books the navigation is explored over: every division into chapters
\* of up to MaxSections sections, with and without the section the
\* application starts on.
NavBooks ==
    UNION { UNION { { ChaptersOf(lo, hi, cuts) : cuts \in SUBSET (lo..(hi - 1)) } :
                    hi \in lo..MaxSections } :
            lo \in 1..2 }

\* ------------------------------------------------------------------------
\* State
\* ------------------------------------------------------------------------

VARIABLES
    bookData,          \* the content model, fixed for the session
    activeSectionId,   \* App: the requested section identifier
    showPlayer,        \* Reader: the player panel is shown
    isPlaying,         \* Reader state
    isPaused,          \* Reader state
    progress,          \* Reader state: a percentage, as a reduced fraction
    synthRef,          \* Reader: synthRef.current is set
    utteranceRef,      \* Reader: utteranceRef.current is set
    hostQueue,         \* host: the utterances the facility holds
    hostPaused,        \* host: the facility is paused
    pending,           \* host: notifications posted, not yet delivered
    lastOp,            \* the handler the last step ran, and what it started from
    lastCancel,        \* what last cut a narration short since the last speak()
    hostCalls,         \* the requests the last step made to the facility
    consoleLog,        \* what the last step logged
    fontSizeIndex,     \* App state: the font-size level, a number or NaN
    isDarkMode,        \* App state: the theme flag
    bookmarks,         \* App state: the bookmarked identifiers, in order
    storage,           \* localStorage: what each key holds
    storageWritable,   \* localStorage: setItem succeeds
    loaded,            \* what getItem gave for each key at startup
    uncaught           \* the error no handler caught, "none" while there is none

settingsVars == << fontSizeIndex, isDarkMode, bookmarks, storage, storageWritable,
                   loaded, uncaught >>

vars == << bookData, activeSectionId, showPlayer, isPlaying, isPaused, progress,
           synthRef, utteranceRef, hostQueue, hostPaused, pending, lastOp,
           lastCancel, hostCalls, consoleLog, settingsVars >>

\* The state of App: the content, the requested section and the settings.
appVars == << bookData, activeSectionId, settingsVars >>

readerVars == << showPlayer, isPlaying, isPaused, progress, synthRef, utteranceRef >>

hostVars == << hostQueue, hostPaused, pending >>

\* ------------------------------------------------------------------------
\* Navigation (App.tsx)
\* ------------------------------------------------------------------------

\* Array.prototype.findIndex(s => s.id === id): 0-based, -1 when absent.
FindIndex(sections, id) ==
    IF \E i \in 1..Len(sections) : sections[i].id = id
    THEN (CHOOSE i \in 1..Len(sections) :
              /\ sections[i].id = id
              /\ \A j \in 1..(i - 1) : sections[j].id # id) - 1
    ELSE -1

\* A 0-based array read; undefined (Null) outside the array.
At(arr, i) == IF i >= 0 /\ i < Len(arr) THEN arr[i + 1] ELSE Null

RECURSIVE FlatMapSections(_)
FlatMapSections(data) ==
    IF data = << >> THEN << >>
    ELSE Head(data).sections \o FlatMapSections(Tail(data))

isTOC(id) == id = TOC

RECURSIVE FindInChapters(_, _)
FindInChapters(chapters, id) ==
    IF chapters = << >> THEN Null
    ELSE LET chapter == Head(chapters)
             index   == FindIndex(chapter.sections, id)
         IN  IF index # -1
             THEN [title   |-> chapter.title,
                   index   |-> index,
                   total   |-> Len(chapter.sections),
                   section |-> At(chapter.sections, index)]
             ELSE FindInChapters(Tail(chapters), id)

\* A lookup that gives up (no active section) when the identifier is unknown.
activeChapterInfoNoFallback(data, id) ==
    IF isTOC(id) THEN Null ELSE FindInChapters(data, id)

activeChapterInfo(data, id) ==
    IF isTOC(id) THEN Null
    ELSE LET found == FindInChapters(data, id)
         IN  IF found # Null THEN found
             ELSE LET firstChapter == data[1]
                  IN  [title   |-> firstChapter.title,
                       index   |-> 0,
                       total   |-> Len(firstChapter.sections),
                       section |-> At(firstChapter.sections, 0)]

activeSection(data, id) ==
    LET info == activeChapterInfo(data, id)
    IN  IF info = Null THEN Null ELSE info.section

\* A predecessor looked up among the sections of the first chapter only.
prevSectionFirstChapter(data, id) ==
    LET allSections  == data[1].sections
        currentIndex == FindIndex(allSections, id)
    IN  IF isTOC(id) THEN Null
        ELSE IF currentIndex > 0 THEN At(allSections, currentIndex - 1)
        ELSE [id |-> TOC, title |-> "Contents"]

\* (The title shown for the table of contents stands for the source's label.)
prevSection(data, id) ==
    LET allSections  == FlatMapSections(data)
        currentIndex == FindIndex(allSections, id)
    IN  IF isTOC(id) THEN Null
        ELSE IF currentIndex > 0 THEN At(allSections, currentIndex - 1)
        ELSE [id |-> TOC, title |-> "Contents"]

\* A successor that treats the table of contents like any unknown section
\* but one position too far.
nextSectionSkipsFirst(data, id) ==
    LET allSections  == FlatMapSections(data)
        currentIndex == IF isTOC(id) THEN 0 ELSE FindIndex(allSections, id)
    IN  IF currentIndex < Len(allSections) - 1
        THEN At(allSections, currentIndex + 1)
        ELSE Null

nextSection(data, id) ==
    LET allSections  == FlatMapSections(data)
        currentIndex == FindIndex(allSections, id)
    IN  IF isTOC(id)
        THEN [id |-> allSections[1].id, title |-> allSections[1].title]
        ELSE IF currentIndex < Len(allSections) - 1
        THEN At(allSections, currentIndex + 1)
        ELSE Null

\* The Reader is rendered only off the table of contents, and only for a
\* section that exists (App.tsx: isTOC ? ... : activeSection && <Reader/>).
ReaderMounted(data, id) == ~isTOC(id) /\ activeSection(data, id) # Null

SectionIds(data) ==
    { FlatMapSections(data)[i].id : i \in 1..Len(FlatMapSections(data)) }

\* ------------------------------------------------------------------------
\* Narration text and progress (Reader)
\* ------------------------------------------------------------------------

RECURSIVE ItemsText(_)
ItemsText(items) ==
    IF items = << >> THEN ""
    ELSE Head(items) \o ". \n" \o ItemsText(Tail(items))

\* A narration that reads the footnotes too.
BlockTextWithFootnotes(block) ==
    CASE block.type = "string"   -> block.text \o " \n"
      [] block.type = "header"   -> block.text \o ". \n"
      [] block.type = "list"     -> ItemsText(block.items)
      [] block.type = "quote"    -> block.text \o ". \n"
      [] block.type = "footnote" -> block.text \o ". \n"

BlockText(block) ==
    CASE block.type = "string"   -> block.text \o " \n"
      [] block.type = "header"   -> block.text \o ". \n"
      [] block.type = "list"     -> ItemsText(block.items)
      [] block.type = "quote"    -> block.text \o ". \n"
      [] block.type = "footnote" -> ""

RECURSIVE BlocksText(_)
BlocksText(content) ==
    IF content = << >> THEN ""
    ELSE BlockText(Head(content)) \o BlocksText(Tail(content))

extractText(section) == section.title \o ". \n\n" \o BlocksText(section.content)

RECURSIVE GCD(_, _)
GCD(a, b) == IF b = 0 THEN a ELSE GCD(b, a % b)

\* A percentage held exactly, as a fraction in lowest terms.
Fraction(n, d) == [num |-> n \div GCD(n, d), den |-> d \div GCD(n, d)]

Percent(n) == [num |-> n, den |-> 1]

\* No upper clamp.
NoMin(x) == x

\* Math.min(x, 100)
MinHundred(x) == IF x.num > 100 * x.den THEN Percent(100) ELSE x

\* utterance.onboundary: Math.min((charIndex / len) * 100, 100), where
\* len is text.length, or 1 for an empty text.
BoundaryProgress(charIndex, textLength) ==
    LET len == IF textLength > 0 THEN textLength ELSE 1
    IN  MinHundred(Fraction(charIndex * 100, len))

\* ------------------------------------------------------------------------
\* The host narration facility (window.speechSynthesis)
\* ------------------------------------------------------------------------

\* SpeechSynthesisErrorEvent.error of an utterance that cancel() removed:
\* "canceled" before it began to be spoken, "interrupted" after.
CancelCauses == {"canceled", "interrupted"}

\* Causes of a failed narration.
FailureCauses == {"synthesis-failed", "network"}

\* SpeechSynthesisEvent.name of a boundary notification.
BoundaryNames == {"word", "sentence"}

\* The character offsets the model lets the host report.
CharIndexes == {0, 3, MaxCharIndex}

\* A notification handed to the page's task queue; beyond MaxPending
\* undelivered notifications it is left out.
Notify(p, event) == IF Len(p) < MaxPending THEN Append(p, event) ELSE p

\* The notifications of an utterance. What a notification reports (the name
\* and character offset of a boundary, the cause of an error) is read by its
\* handler alone, and the model draws it when the notification is delivered:
\* the cause of an error is one of CancelCauses when cancel() removed the
\* utterance, and one of FailureCauses otherwise.
BoundaryEvent(utterance) == [kind |-> "boundary", len |-> utterance.len, live |-> TRUE]

EndEvent(utterance) == [kind |-> "end", live |-> TRUE]

ErrorEvent(utterance, byCancel) == [kind |-> "error", cancelled |-> byCancel, live |-> TRUE]

RECURSIVE CancelNotices(_, _)
CancelNotices(p, queue) ==
    IF queue = << >> THEN p
    ELSE CancelNotices(Notify(p, ErrorEvent(Head(queue), TRUE)), Tail(queue))

\* speechSynthesis.cancel(): every utterance leaves the queue and is sent an
\* error notification; the paused flag is left as it is.
HostCancel(host) ==
    [host EXCEPT !.queue = << >>,
                 !.pending = CancelNotices(host.pending, host.queue)]

\* speechSynthesis.speak(utterance): the utterance joins the queue.
HostSpeak(host, utterance) == [host EXCEPT !.queue = Append(host.queue, utterance)]

HostPause(host) == [host EXCEPT !.paused = TRUE]

HostResume(host) == [host EXCEPT !.paused = FALSE]

Host == [queue |-> hostQueue, paused |-> hostPaused, pending |-> pending]

SetHost(host) ==
    /\ hostQueue' = host.queue
    /\ hostPaused' = host.paused
    /\ pending' = host.pending

\* ------------------------------------------------------------------------
\* The Reader's narration controller
\* ------------------------------------------------------------------------

PlaybackState ==
    IF isPaused THEN "Paused" ELSE IF isPlaying THEN "Playing" ELSE "Idle"

Op(name, event) ==
    [name |-> name, was |-> PlaybackState, inFlight |-> Len(hostQueue), event |-> event]

\* A stop that forgets to reset the progress.
handleStopKeepsProgress(synth) ==
    /\ IF synth
       THEN /\ SetHost(HostCancel(Host))
            /\ hostCalls' = << "cancel" >>
       ELSE /\ UNCHANGED hostVars
            /\ hostCalls' = << >>
    /\ isPlaying' = FALSE
    /\ isPaused' = FALSE
    /\ UNCHANGED progress
    /\ utteranceRef' = FALSE
    /\ consoleLog' = << >>

\* A stop that resets the state and leaves the host alone.
handleStopNoCancel(synth) ==
    /\ UNCHANGED hostVars
    /\ hostCalls' = << >>
    /\ isPlaying' = FALSE
    /\ isPaused' = FALSE
    /\ progress' = Percent(0)
    /\ utteranceRef' = FALSE
    /\ consoleLog' = << >>

\* handleStop, with synthRef.current as it is when the handler runs.
handleStop(synth) ==
    /\ IF synth
       THEN /\ SetHost(HostCancel(Host))
            /\ hostCalls' = << "cancel" >>
       ELSE /\ UNCHANGED hostVars
            /\ hostCalls' = << >>
    /\ isPlaying' = FALSE
    /\ isPaused' = FALSE
    /\ progress' = Percent(0)
    /\ utteranceRef' = FALSE
    /\ consoleLog' = << >>

\* A resume that forgets to mark the narration as playing again.
PlayResumeStaysIdle ==
    /\ SetHost(HostResume(Host))
    /\ hostCalls' = << "resume" >>
    /\ isPaused' = FALSE
    /\ isPlaying' = FALSE
    /\ UNCHANGED << progress, utteranceRef, lastCancel >>

\* handlePlay, Paused: resume.
PlayResume ==
    /\ SetHost(HostResume(Host))
    /\ hostCalls' = << "resume" >>
    /\ isPaused' = FALSE
    /\ isPlaying' = TRUE
    /\ UNCHANGED << progress, utteranceRef, lastCancel >>

\* handlePlay, Playing: pause.
PlayPause ==
    /\ SetHost(HostPause(Host))
    /\ hostCalls' = << "pause" >>
    /\ isPaused' = TRUE
    /\ isPlaying' = FALSE
    /\ UNCHANGED << progress, utteranceRef, lastCancel >>

\* A speak() that does not cancel first.
SpeakWithoutCancel(host, utterance) == HostSpeak(host, utterance)

\* handlePlay, Idle: cancel what the host may still hold, then speak.
SpeakRequest(host, utterance) == HostSpeak(HostCancel(host), utterance)

\* handlePlay on the section the Reader shows.
handlePlay(section) ==
    LET text == extractText(section)
        utterance == [section |-> section.id, len |-> Len(text)]
    IN
    /\ consoleLog' = << >>
    /\ IF ~synthRef
       THEN UNCHANGED << isPlaying, isPaused, progress, utteranceRef, hostVars,
                         hostCalls, lastCancel >>
       ELSE IF isPaused THEN PlayResume
       ELSE IF isPlaying THEN PlayPause
       ELSE IF text = ""
       THEN UNCHANGED << isPlaying, isPaused, progress, utteranceRef, hostVars,
                         hostCalls, lastCancel >>
       ELSE /\ SetHost(SpeakRequest(Host, utterance))
            /\ hostCalls' = << "cancel", "speak" >>
            /\ utteranceRef' = TRUE
            /\ isPlaying' = TRUE
            /\ isPaused' = FALSE
            /\ lastCancel' = "none"
            /\ UNCHANGED progress

\* What a stop leaves in lastCancel: the first cut since the last speak().
StopCause(why) == IF lastCancel = "none" /\ PlaybackState # "Idle" THEN why ELSE lastCancel

\* utterance.onboundary
onboundary(event) ==
    /\ IF event.name \in {"word", "sentence"} /\ event.live
       THEN progress' = BoundaryProgress(event.charIndex, event.len)
       ELSE UNCHANGED progress
    /\ consoleLog' = << >>
    /\ UNCHANGED << isPlaying, isPaused, utteranceRef >>

\* A completion handler that ignores a narration the controller has dropped.
onendIfCurrent(event) ==
    /\ IF event.live /\ utteranceRef
       THEN /\ isPlaying' = FALSE
            /\ isPaused' = FALSE
            /\ progress' = Percent(100)
            /\ utteranceRef' = FALSE
       ELSE UNCHANGED << isPlaying, isPaused, progress, utteranceRef >>
    /\ consoleLog' = << >>

\* utterance.onend
onend(event) ==
    /\ IF event.live
       THEN /\ isPlaying' = FALSE
            /\ isPaused' = FALSE
            /\ progress' = Percent(100)
            /\ utteranceRef' = FALSE
       ELSE UNCHANGED << isPlaying, isPaused, progress, utteranceRef >>
    /\ consoleLog' = << >>

\* An error handler that treats every cause as a failure.
onerrorEveryCause(event) ==
    /\ consoleLog' = << "Speech synthesis error:", event.error >>
    /\ IF event.live
       THEN /\ isPlaying' = FALSE
            /\ isPaused' = FALSE
       ELSE UNCHANGED << isPlaying, isPaused >>
    /\ UNCHANGED << progress, utteranceRef >>

\* utterance.onerror
onerror(event) ==
    IF event.error = "canceled" \/ event.error = "interrupted"
    THEN /\ consoleLog' = << >>
         /\ UNCHANGED << isPlaying, isPaused, progress, utteranceRef >>
    ELSE /\ consoleLog' = << "Speech synthesis error:", event.error >>
         /\ IF event.live
            THEN /\ isPlaying' = FALSE
                 /\ isPaused' = FALSE
            ELSE UNCHANGED << isPlaying, isPaused >>
         /\ UNCHANGED << progress, utteranceRef >>

\* The state setters of an unmounted Reader do nothing: its notifications
\* no longer reach a controller.
RECURSIVE MarkDead(_)
MarkDead(p) ==
    IF p = << >> THEN << >>
    ELSE << [Head(p) EXCEPT !.live = FALSE] >> \o MarkDead(Tail(p))

SectionChangeCause ==
    IF PlaybackState = "Playing" THEN "sectionChange" ELSE "sectionChangePaused"

\* useEffect(() => { handleStop(); setShowPlayer(false); }, [section.id])
ReaderSectionEffect ==
    /\ handleStop(TRUE)
    /\ lastCancel' = StopCause(SectionChangeCause)
    /\ showPlayer' = FALSE
    /\ synthRef' = TRUE

\* The Reader leaves the page: the cleanup of its first effect runs and its
\* state is discarded.
ReaderUnmount ==
    /\ IF synthRef
       THEN /\ hostQueue' = << >>
            /\ pending' = MarkDead(HostCancel(Host).pending)
            /\ hostCalls' = << "cancel" >>
       ELSE /\ hostQueue' = hostQueue
            /\ pending' = MarkDead(pending)
            /\ hostCalls' = << >>
    /\ hostPaused' = hostPaused
    /\ lastCancel' = StopCause(SectionChangeCause)
    /\ showPlayer' = FALSE
    /\ isPlaying' = FALSE
    /\ isPaused' = FALSE
    /\ progress' = Percent(0)
    /\ synthRef' = FALSE
    /\ utteranceRef' = FALSE
    /\ consoleLog' = << >>

\* A new Reader enters the page: fresh state, then both effects run. The
\* first sets synthRef.current to window.speechSynthesis, which the model
\* takes to exist (as its DOM type says), the second is the section effect.
ReaderMount == ReaderSectionEffect

\* setActiveSectionId(id), the render it causes and the render's effects,
\* which React runs before the next task: no notification of the host is
\* delivered in between.
Navigate(id) ==
    LET wasMounted == ReaderMounted(bookData, activeSectionId)
        nowMounted == ReaderMounted(bookData, id)
        oldSection == activeSection(bookData, activeSectionId)
        newSection == activeSection(bookData, id)
    IN
    /\ uncaught = "none"
    /\ activeSectionId' = id
    /\ UNCHANGED << bookData, settingsVars >>
    /\ lastOp' = Op("navigate", Null)
    /\ IF wasMounted /\ nowMounted
       THEN IF newSection.id # oldSection.id
            THEN ReaderSectionEffect
            ELSE /\ UNCHANGED << readerVars, hostVars, lastCancel >>
                 /\ hostCalls' = << >>
                 /\ consoleLog' = << >>
       ELSE IF wasMounted THEN ReaderUnmount
       ELSE IF nowMounted THEN ReaderMount
       ELSE /\ UNCHANGED << readerVars, hostVars, lastCancel >>
            /\ hostCalls' = << >>
            /\ consoleLog' = << >>

\* ------------------------------------------------------------------------
\* Settings and their persistence (App.tsx)
\* ------------------------------------------------------------------------

FONT_SIZES == << "prose-sm", "prose-base", "prose-lg", "prose-xl", "prose-2xl" >>

\* The level of a session that finds nothing stored.
DefaultFontSizeIndex == 2

\* A JavaScript number: an integer, or NaN.
Num(v) == [nan |-> FALSE, val |-> v]

NaN == [nan |-> TRUE, val |-> 0]

Char(s, i) == SubSeq(s, i, i)

IsDigit(c) == \E d \in 0..9 : ToString(d) = c

DigitValue(c) == CHOOSE d \in 0..9 : ToString(d) = c

RECURSIVE SkipSpaces(_, _)
SkipSpaces(s, i) ==
    IF i <= Len(s) /\ Char(s, i) = " " THEN SkipSpaces(s, i + 1) ELSE i

RECURSIVE ReadDigits(_, _, _)
ReadDigits(s, i, acc) ==
    IF i <= Len(s) /\ IsDigit(Char(s, i))
    THEN ReadDigits(s, i + 1, acc * 10 + DigitValue(Char(s, i)))
    ELSE acc

\* parseInt(s, 10): leading blanks and a sign are skipped, the digits that
\* follow are read and whatever comes after them is ignored; NaN when no
\* digit is there.
parseInt(s) ==
    LET start  == SkipSpaces(s, 1)
        signed == start <= Len(s) /\ Char(s, start) \in {"-", "+"}
        first  == IF signed THEN start + 1 ELSE start
        sign   == IF signed /\ Char(s, start) = "-" THEN -1 ELSE 1
    IN  IF first <= Len(s) /\ IsDigit(Char(s, first))
        THEN Num(sign * ReadDigits(s, first, 0))
        ELSE NaN

\* Number.prototype.toString().
NumberToString(n) == IF n.nan THEN "NaN" ELSE ToString(n.val)

\* Boolean.prototype.toString().
BooleanToString(b) == IF b THEN "true" ELSE "false"

\* Math.min and Math.max of a number and an integer: NaN stays NaN.
MathMin(n, k) == IF n.nan THEN NaN ELSE Num(IF n.val < k THEN n.val ELSE k)

MathMax(n, k) == IF n.nan THEN NaN ELSE Num(IF n.val > k THEN n.val ELSE k)

Plus(n, k) == IF n.nan THEN NaN ELSE Num(n.val + k)

increaseFont(prev) == MathMin(Plus(prev, 1), Len(FONT_SIZES) - 1)

decreaseFont(prev) == MathMax(Plus(prev, -1), 0)

toggleDarkMode(prev) == ~prev

Includes(list, x) == \E i \in 1..Len(list) : list[i] = x

RECURSIVE Without(_, _)
Without(list, x) ==
    IF list = << >> THEN << >>
    ELSE IF Head(list) = x THEN Without(Tail(list), x)
    ELSE << Head(list) >> \o Without(Tail(list), x)

\* A toggle that puts a new bookmark in front.
toggleBookmarkPrepends(prev, sectionId) ==
    IF Includes(prev, sectionId)
    THEN Without(prev, sectionId)
    ELSE << sectionId >> \o prev

toggleBookmark(prev, sectionId) ==
    IF Includes(prev, sectionId)
    THEN Without(prev, sectionId)
    ELSE Append(prev, sectionId)

\* JSON.stringify of an array of strings (the identifiers hold no character
\* that JSON escapes).
RECURSIVE JSONElements(_)
JSONElements(list) ==
    IF list = << >> THEN ""
    ELSE "\"" \o Head(list) \o "\""
         \o (IF Len(list) > 1 THEN "," ELSE "") \o JSONElements(Tail(list))

JSONstringify(list) == "[" \o JSONElements(list) \o "]"

\* The position of the first double quote of s at or after i, 0 if none.
RECURSIVE ClosingQuote(_, _)
ClosingQuote(s, i) ==
    IF i > Len(s) THEN 0
    ELSE IF Char(s, i) = "\"" THEN i
    ELSE ClosingQuote(s, i + 1)

SyntaxError == [ok |-> FALSE, value |-> << >>]

\* The elements of an array text, from position i on, i the place where a
\* string has to open.
RECURSIVE ParseElements(_, _, _)
ParseElements(s, i, acc) ==
    IF i > Len(s) \/ Char(s, i) # "\"" THEN SyntaxError
    ELSE LET close == ClosingQuote(s, i + 1)
             value == Append(acc, SubSeq(s, i + 1, close - 1))
         IN  IF close = 0 \/ close = Len(s) THEN SyntaxError
             ELSE IF Char(s, close + 1) = "]"
             THEN IF close + 1 = Len(s) THEN [ok |-> TRUE, value |-> value]
                  ELSE SyntaxError
             ELSE IF Char(s, close + 1) = ","
             THEN ParseElements(s, close + 2, value)
             ELSE SyntaxError

\* JSON.parse, for the texts the model stores: an array of strings written
\* without blanks or escapes gives the array, a text that is not JSON
\* throws. (The model stores no text that is JSON of another shape.)
JSONparse(s) ==
    IF s = "[]" THEN [ok |-> TRUE, value |-> << >>]
    ELSE IF Len(s) >= 2 /\ Char(s, 1) = "[" THEN ParseElements(s, 2, << >>)
    ELSE SyntaxError

\* What localStorage.getItem gives: null, a text, or an exception.
Absent == [kind |-> "absent", text |-> ""]

Text(t) == [kind |-> "text", text |-> t]

Throws == [kind |-> "throws", text |-> ""]

Keys == {"fontSizeIndex", "darkMode", "bookmarks"}

\* The initializer of fontSizeIndex.
loadFontSizeIndex(saved) ==
    IF saved.kind = "throws" THEN Num(DefaultFontSizeIndex)
    ELSE IF saved.kind # "absent" THEN parseInt(saved.text)
    ELSE Num(DefaultFontSizeIndex)

\* The initializer of isDarkMode.
loadDarkMode(saved) ==
    IF saved.kind = "throws" THEN FALSE
    ELSE saved.kind = "text" /\ saved.text = "true"

\* The initializer of bookmarks.
loadBookmarks(saved) ==
    IF saved.kind = "throws" THEN << >>
    ELSE IF saved.kind = "text" /\ saved.text # ""
    THEN LET parsed == JSONparse(saved.text)
         IN  IF parsed.ok THEN parsed.value ELSE << >>
    ELSE << >>

\* What the three persistence effects store.
Persisted(font, dark, marks) ==
    [fontSizeIndex |-> Text(NumberToString(font)),
     darkMode      |-> Text(BooleanToString(dark)),
     bookmarks     |-> Text(JSONstringify(marks))]

\* localStorage.setItem(key, text) in an effect: the text is stored, or the
\* call throws and nothing catches the exception.
SetItem(key, text) ==
    IF storageWritable
    THEN /\ storage' = [storage EXCEPT ![key] = Text(text)]
         /\ UNCHANGED uncaught
    ELSE /\ uncaught' = "QuotaExceededError"
         /\ UNCHANGED storage

\* The first render of App with the given answers of getItem, and the three
\* persistence effects that follow it.
StartFrom(saved, writable) ==
    LET font  == loadFontSizeIndex(saved.fontSizeIndex)
        dark  == loadDarkMode(saved.darkMode)
        marks == loadBookmarks(saved.bookmarks)
    IN  /\ loaded = saved
        /\ fontSizeIndex = font
        /\ isDarkMode = dark
        /\ bookmarks = marks
        /\ storageWritable = writable
        /\ storage = IF writable THEN Persisted(font, dark, marks)
                     ELSE [k \in Keys |->
                              IF saved[k].kind = "text" THEN saved[k] ELSE Absent]
        /\ uncaught = IF writable THEN "none" ELSE "QuotaExceededError"

\* A first visit: nothing stored, storage in working order.
NothingStored == [k \in Keys |-> Absent]

\* ------------------------------------------------------------------------
\* Steps
\* ------------------------------------------------------------------------

\* The first render of App over one of the given books, before its effects.
FirstRender(books) ==
    /\ bookData \in books
    /\ activeSectionId = StartId
    /\ showPlayer = FALSE
    /\ isPlaying = FALSE
    /\ isPaused = FALSE
    /\ progress = Percent(0)
    /\ synthRef = ReaderMounted(bookData, StartId)
    /\ utteranceRef = FALSE
    /\ hostQueue = << >>
    /\ hostPaused = FALSE
    /\ pending = << >>
    /\ lastOp = [name |-> "init", was |-> "Idle", inFlight |-> 0, event |-> Null]
    /\ lastCancel = "none"
    /\ hostCalls = << >>
    /\ consoleLog = << >>

\* A first visit to one of the given books.
InitWith(books) == FirstRender(books) /\ StartFrom(NothingStored, TRUE)

\* Sidebar, TableOfContents and the header's contents button.
SelectSection ==
    \E id \in SectionIds(bookData) \cup {TOC} : Navigate(id)

\* The footer's "back" button.
ClickPrev ==
    /\ prevSection(bookData, activeSectionId) # Null
    /\ Navigate(prevSection(bookData, activeSectionId).id)

\* The footer's "next" button.
ClickNext ==
    /\ nextSection(bookData, activeSectionId) # Null
    /\ Navigate(nextSection(bookData, activeSectionId).id)

\* The "listen" button.
TogglePlayer ==
    /\ ReaderMounted(bookData, activeSectionId)
    /\ showPlayer' = ~showPlayer
    /\ lastOp' = Op("togglePlayer", Null)
    /\ hostCalls' = << >>
    /\ consoleLog' = << >>
    /\ UNCHANGED << appVars, isPlaying, isPaused, progress, synthRef, utteranceRef,
                    hostVars, lastCancel >>

\* The play / pause button of the player panel.
ClickPlay ==
    /\ ReaderMounted(bookData, activeSectionId)
    /\ showPlayer
    /\ handlePlay(activeSection(bookData, activeSectionId))
    /\ lastOp' = Op("play", Null)
    /\ UNCHANGED << appVars, showPlayer, synthRef >>

\* The stop button of the player panel.
ClickStop ==
    /\ ReaderMounted(bookData, activeSectionId)
    /\ showPlayer
    /\ handleStop(synthRef)
    /\ lastCancel' = StopCause("stop")
    /\ lastOp' = Op("stop", Null)
    /\ UNCHANGED << appVars, showPlayer, synthRef >>

\* The close button of the player panel: handleStop(); setShowPlayer(false).
ClickClose ==
    /\ ReaderMounted(bookData, activeSectionId)
    /\ showPlayer
    /\ handleStop(synthRef)
    /\ lastCancel' = StopCause("stop")
    /\ showPlayer' = FALSE
    /\ lastOp' = Op("close", Null)
    /\ UNCHANGED << appVars, synthRef >>

HostStep(name) ==
    /\ lastOp' = Op(name, Null)
    /\ hostCalls' = << >>
    /\ consoleLog' = << >>
    /\ UNCHANGED << appVars, readerVars, hostPaused, lastCancel >>

\* The host reaches a word or sentence boundary of the utterance it speaks.
HostBoundary ==
    /\ hostQueue # << >>
    /\ ~hostPaused
    /\ Len(pending) < MaxPending
    /\ pending' = Append(pending, BoundaryEvent(Head(hostQueue)))
    /\ UNCHANGED hostQueue
    /\ HostStep("host:boundary")

\* The host finishes speaking the utterance.
HostEnd ==
    /\ hostQueue # << >>
    /\ ~hostPaused
    /\ Len(pending) < MaxPending
    /\ pending' = Append(pending, EndEvent(Head(hostQueue)))
    /\ hostQueue' = Tail(hostQueue)
    /\ HostStep("host:end")

\* The host fails to speak the utterance.
HostError ==
    /\ hostQueue # << >>
    /\ Len(pending) < MaxPending
    /\ pending' = Append(pending, ErrorEvent(Head(hostQueue), FALSE))
    /\ hostQueue' = Tail(hostQueue)
    /\ HostStep("host:error")

Deliver(kind, name, event) ==
    /\ pending # << >>
    /\ Head(pending).kind = kind
    /\ pending' = Tail(pending)
    /\ lastOp' = Op(name, event)
    /\ hostCalls' = << >>
    /\ UNCHANGED << appVars, showPlayer, synthRef, hostQueue, hostPaused, lastCancel >>

DeliverBoundary ==
    \E name \in BoundaryNames, charIndex \in CharIndexes :
        LET event == [name |-> name, charIndex |-> charIndex] @@ Head(pending)
        IN  Deliver("boundary", "onboundary", event) /\ onboundary(event)

DeliverEnd == Deliver("end", "onend", Head(pending)) /\ onend(Head(pending))

DeliverError ==
    \E cause \in CancelCauses \cup FailureCauses :
        LET event == [error |-> cause] @@ Head(pending)
        IN  /\ Deliver("error", "onerror", event)
            /\ cause \in CancelCauses <=> event.cancelled
            /\ onerror(event)

Next ==
    \/ SelectSection
    \/ ClickPrev
    \/ ClickNext
    \/ TogglePlayer
    \/ ClickPlay
    \/ ClickStop
    \/ ClickClose
    \/ HostBoundary
    \/ HostEnd
    \/ HostError
    \/ DeliverBoundary
    \/ DeliverEnd
    \/ DeliverError

Init == InitWith(PlaybackBooks)

Spec == Init /\ [][Next]_vars

\* Navigation alone, over every book of NavBooks.
NavInit == InitWith(NavBooks)

NavNext ==
    \/ SelectSection
    \/ ClickPrev
    \/ ClickNext

NavSpec == NavInit /\ [][NavNext]_vars

\* ------------------------------------------------------------------------
\* Settings: the inputs and the steps
\* ------------------------------------------------------------------------

\* The book the bookmarks are explored over: MaxBookmarks sections, the
\* first in a chapter of its own.
BookmarkBooks == { ChaptersOf(1, MaxBookmarks, {1}) }

\* What the bookmarks key may hold at startup: arrays with a known, an
\* unknown and a repeated identifier, the empty text and a text that is not
\* JSON.
StoredBookmarks ==
    { Absent, Throws, Text(""), Text("[]"), Text("[\"s2\",\"intro-1\"]"),
      Text("[\"s2\",\"zz\",\"s2\"]"), Text("[\"s2\"") }

\* What the fontSizeIndex key may hold at startup.
StoredFontSizes ==
    { Absent, Throws, Text("0"), Text("2"), Text("4"), Text("7"), Text("-1"),
      Text("abc"), Text(""), Text("3px") }

\* What the darkMode key may hold at startup.
StoredDarkModes == { Absent, Throws, Text("true"), Text("false"), Text("yes") }

\* A step of the settings: the handler named, the render and the effects.
SettingsStep(name, event) ==
    /\ uncaught = "none"
    /\ lastOp' = Op(name, event)
    /\ hostCalls' = << >>
    /\ consoleLog' = << >>
    /\ UNCHANGED << bookData, activeSectionId, readerVars, hostVars, lastCancel,
                    storageWritable, loaded >>

\* The effect of fontSizeIndex, which runs when the value has changed.
SetFontSizeIndex(value) ==
    /\ fontSizeIndex' = value
    /\ IF value # fontSizeIndex
       THEN SetItem("fontSizeIndex", NumberToString(value))
       ELSE UNCHANGED << storage, uncaught >>
    /\ UNCHANGED << isDarkMode, bookmarks >>

\* The header's "larger" button, shown with a section and disabled at the
\* last size class.
IncreaseFont ==
    /\ ~isTOC(activeSectionId)
    /\ fontSizeIndex # Num(Len(FONT_SIZES) - 1)
    /\ SetFontSizeIndex(increaseFont(fontSizeIndex))
    /\ SettingsStep("increaseFont", Null)

\* The header's "smaller" button, shown with a section and disabled at the
\* first size class.
DecreaseFont ==
    /\ ~isTOC(activeSectionId)
    /\ fontSizeIndex # Num(0)
    /\ SetFontSizeIndex(decreaseFont(fontSizeIndex))
    /\ SettingsStep("decreaseFont", Null)

\* The header's theme button.
ToggleDarkMode ==
    /\ isDarkMode' = toggleDarkMode(isDarkMode)
    /\ SetItem("darkMode", BooleanToString(isDarkMode'))
    /\ UNCHANGED << fontSizeIndex, bookmarks >>
    /\ SettingsStep("toggleDarkMode", Null)

\* The Reader's bookmark button: toggleBookmark(activeSection.id). The step
\* records the list it found and, when the step before it toggled the same
\* identifier, the list that step found.
ToggleBookmark ==
    /\ ReaderMounted(bookData, activeSectionId)
    /\ LET sectionId == activeSection(bookData, activeSectionId).id
           twice     == /\ lastOp.name = "toggleBookmark"
                        /\ lastOp.event.sectionId = sectionId
       IN  /\ bookmarks' = toggleBookmark(bookmarks, sectionId)
           /\ SettingsStep("toggleBookmark",
                           [sectionId |-> sectionId,
                            before    |-> bookmarks,
                            twice     |-> twice,
                            original  |-> IF twice THEN lastOp.event.before
                                          ELSE << >>])
    /\ SetItem("bookmarks", JSONstringify(bookmarks'))
    /\ UNCHANGED << fontSizeIndex, isDarkMode >>

\* The browser stops accepting writes (the quota is used up, or the user
\* turns site data off).
StorageFills ==
    /\ storageWritable
    /\ storageWritable' = FALSE
    /\ lastOp' = Op("storage:full", Null)
    /\ hostCalls' = << >>
    /\ consoleLog' = << >>
    /\ UNCHANGED << bookData, activeSectionId, readerVars, hostVars, lastCancel,
                    fontSizeIndex, isDarkMode, bookmarks, storage, loaded, uncaught >>

\* The bookmarks of a session that may find bookmarks stored.
BookmarkInit ==
    /\ FirstRender(BookmarkBooks)
    /\ \E saved \in StoredBookmarks :
           StartFrom([NothingStored EXCEPT !.bookmarks = saved], TRUE)

BookmarkNext ==
    \/ SelectSection
    \/ ToggleBookmark

BookmarkSpec == BookmarkInit /\ [][BookmarkNext]_vars

\* The settings of a session that may find anything stored, with a storage
\* that may refuse writes.
SettingsInit ==
    /\ FirstRender(PlaybackBooks)
    /\ \E font \in StoredFontSizes, dark \in StoredDarkModes,
          marks \in StoredBookmarks, writable \in BOOLEAN :
           StartFrom([fontSizeIndex |-> font, darkMode |-> dark,
                      bookmarks |-> marks], writable)

SettingsNext ==
    \/ IncreaseFont
    \/ DecreaseFont
    \/ ToggleDarkMode
    \/ ToggleBookmark
    \/ StorageFills

SettingsSpec == SettingsInit /\ [][SettingsNext]_vars

\* ------------------------------------------------------------------------
\* Narration text: the inputs and the steps
\* ------------------------------------------------------------------------

\* The blocks a section is made of: one of each type, a list without items
\* and a footnote that reads like a paragraph. No text holds a line break.
BlockPool ==
    { Plain("p"), Header("H"), List(<< >>), List(<< "a", "b" >>), Quote("q"),
      Footnote("p") }

\* Books of one section, with every content of up to MaxBlocks blocks.
TextBooks ==
    { << BookChapter("c1", "One", << BookSection(StartId, title, content) >>) >> :
          title \in {"T", ""},
          content \in UNION { [1..n -> BlockPool] : n \in 0..MaxBlocks } }

TextInit == InitWith(TextBooks)

TextNext ==
    \/ TogglePlayer
    \/ ClickPlay
    \/ ClickStop

TextSpec == TextInit /\ [][TextNext]_vars

\* ------------------------------------------------------------------------
\* Properties
\* ------------------------------------------------------------------------

Idle == ~isPlaying /\ ~isPaused

DisplayedSectionId ==
    IF ReaderMounted(bookData, activeSectionId)
    THEN activeSection(bookData, activeSectionId).id
    ELSE TOC

\* C1: once the active section has changed while the controller was Playing,
\* the controller is Idle with progress 0, and stays so whenever the
\* notifications of the cancelled narration are delivered (until play() is
\* called again).
C1_SectionChangeResets ==
    lastCancel = "sectionChange" => (Idle /\ progress = Percent(0))

\* C2: narration is single-flight: the host holds at most one narration
\* request, and every request it holds narrates the section on display; on
\* the table of contents it holds none.
C2_SingleFlight ==
    /\ Len(hostQueue) <= 1
    /\ \A i \in 1..Len(hostQueue) : hostQueue[i].section = DisplayedSectionId

\* C2 witness: the section changed while a request was in flight, and the
\* host holds none now.
C2_Witness ==
    /\ lastOp.name = "navigate"
    /\ lastOp.inFlight = 1
    /\ lastOp.was = "Playing"
    /\ lastCancel = "sectionChange"
    /\ hostCalls = << "cancel" >>
    /\ hostQueue = << >>

\* C3: play() is a toggle: from Idle it submits one narration request and the
\* controller is Playing, from Playing it requests pause and the controller
\* is Paused, from Paused it requests resume and the controller is Playing.
C3_PlayToggles ==
    [][lastOp'.name = "play" =>
          CASE PlaybackState = "Idle" ->
                   /\ PlaybackState' = "Playing"
                   /\ hostCalls' = << "cancel", "speak" >>
                   /\ Len(hostQueue') = 1
            [] PlaybackState = "Playing" ->
                   /\ PlaybackState' = "Paused"
                   /\ hostCalls' = << "pause" >>
                   /\ hostQueue' = hostQueue
            [] PlaybackState = "Paused" ->
                   /\ PlaybackState' = "Playing"
                   /\ isPlaying'
                   /\ hostCalls' = << "resume" >>
                   /\ hostQueue' = hostQueue]_vars

\* C3 witness: the third call, from Paused, has resumed the narration.
C3_Witness ==
    /\ lastOp.name = "play"
    /\ lastOp.was = "Paused"
    /\ isPlaying /\ ~isPaused
    /\ hostCalls = << "resume" >>
    /\ ~hostPaused

\* C4: stop(), whatever the state it is called in, issues a cancel to the
\* host and leaves the controller Idle with progress 0.
C4_StopResets ==
    [][lastOp'.name \in {"stop", "close"} =>
          /\ hostCalls' = << "cancel" >>
          /\ hostQueue' = << >>
          /\ Idle'
          /\ progress' = Percent(0)]_vars

\* C4 witness: a stop of a paused narration that the host still held.
C4_Witness ==
    /\ lastOp.name = "stop"
    /\ lastOp.was = "Paused"
    /\ lastOp.inFlight = 1
    /\ hostCalls = << "cancel" >>
    /\ Idle
    /\ progress = Percent(0)

\* C5 as claimed: stop() called while Idle changes neither the playback state
\* nor the progress, which are Idle and 0.
C5_StopFromIdleNoOp ==
    [][(lastOp'.name = "stop" /\ Idle) =>
          /\ UNCHANGED << isPlaying, isPaused, progress >>
          /\ Idle'
          /\ progress' = Percent(0)]_vars

\* C5 as amended: stop() called while Idle leaves the playback state
\* unchanged (Idle) and the progress at 0; the progress is unchanged by the
\* call exactly when it was 0 before it.
C5_StopFromIdle ==
    [][(lastOp'.name = "stop" /\ Idle) =>
          /\ UNCHANGED << isPlaying, isPaused >>
          /\ progress' = Percent(0)
          /\ (progress' = progress) <=> (progress = Percent(0))]_vars

\* C5 witness: a stop called while Idle.
C5_Witness ==
    /\ lastOp.name = "stop"
    /\ lastOp.was = "Idle"
    /\ Idle
    /\ progress = Percent(0)

\* C6: a completion notification delivered to the controller that issued the
\* narration moves it to Idle and sets progress to 100, whether or not
\* stop() was requested before the delivery.
C6_CompletionIdleHundred ==
    [][(lastOp'.name = "onend" /\ lastOp'.event.live) =>
          (Idle' /\ progress' = Percent(100))]_vars

\* C6 witness: a completion delivered after stop() was requested.
C6_Witness ==
    /\ lastOp.name = "onend"
    /\ lastOp.event.live
    /\ lastCancel = "stop"
    /\ Idle
    /\ progress = Percent(100)

\* C7: an error notification with cause 'canceled' or 'interrupted' leaves
\* playback state and progress unchanged and logs nothing; with any other
\* cause the controller is Idle afterwards, the failure is logged, and no
\* request (no retry) is made to the host.
C7_ErrorHandling ==
    [][lastOp'.name = "onerror" =>
          IF lastOp'.event.error \in CancelCauses
          THEN /\ UNCHANGED << isPlaying, isPaused, progress >>
               /\ consoleLog' = << >>
          ELSE /\ lastOp'.event.live => Idle'
               /\ consoleLog' = << "Speech synthesis error:", lastOp'.event.error >>
               /\ hostCalls' = << >>
               /\ hostQueue' = hostQueue
               /\ progress' = progress]_vars

\* C7 witness: a failure reported while Playing has been logged and has left
\* the controller Idle.
C7_Witness ==
    /\ lastOp.name = "onerror"
    /\ lastOp.event.error \in FailureCauses
    /\ lastOp.event.live
    /\ lastOp.was = "Playing"
    /\ Idle
    /\ consoleLog # << >>
    /\ hostQueue = << >>

\* C8: the progress lies in [0,100].
C8_ProgressInRange ==
    /\ progress.den > 0
    /\ progress.num >= 0
    /\ progress.num <= 100 * progress.den

\* C8 witness: a boundary notification reported an offset beyond the end of
\* the text, and the progress is 100.
C8_Witness ==
    /\ lastOp.name = "onboundary"
    /\ lastOp.event.live
    /\ lastOp.event.charIndex > lastOp.event.len
    /\ progress = Percent(100)

\* C9: while the controller is Paused a progress notification leaves the
\* progress as it is.
C9_PausedProgressFrozen ==
    [][(lastOp'.name = "onboundary" /\ PlaybackState = "Paused") =>
          progress' = progress]_vars

IsFirst(data, id) == FindIndex(FlatMapSections(data), id) = 0

IsLast(data, id) ==
    FindIndex(FlatMapSections(data), id) = Len(FlatMapSections(data)) - 1

\* C10: for the section x the application is on, if x is in the content model
\* and is not the last section in document order, the predecessor of its
\* successor is x; and if it is not the first, the successor of its
\* predecessor is x.
C10_PrevNextInverse ==
    LET x == activeSectionId
    IN  x \in SectionIds(bookData) =>
            /\ ~IsLast(bookData, x) =>
                   prevSection(bookData, nextSection(bookData, x).id).id = x
            /\ ~IsFirst(bookData, x) =>
                   nextSection(bookData, prevSection(bookData, x).id).id = x

\* C10 witness: the application is on a section that is neither first nor
\* last and that opens a chapter other than the first.
C10_Witness ==
    /\ lastOp.name = "navigate"
    /\ activeSectionId \in SectionIds(bookData)
    /\ ~IsFirst(bookData, activeSectionId)
    /\ ~IsLast(bookData, activeSectionId)
    /\ Len(bookData) >= 2
    /\ activeChapterInfo(bookData, activeSectionId).index = 0

\* The identifier a navigation target carries, if there is a target.
IdOf(target) == IF target = Null THEN "(none)" ELSE target.id

\* C11: on the table of contents no section is active, there is no
\* predecessor and the successor is the first section in document order; the
\* predecessor of the first section is the table of contents, and the last
\* section has no successor.
C11_Sentinel ==
    LET x == activeSectionId
        allSections == FlatMapSections(bookData)
    IN  /\ isTOC(x) =>
               /\ activeSection(bookData, x) = Null
               /\ ~ReaderMounted(bookData, x)
               /\ prevSection(bookData, x) = Null
               /\ IdOf(nextSection(bookData, x)) = allSections[1].id
        /\ (x \in SectionIds(bookData) /\ IsFirst(bookData, x)) =>
               IdOf(prevSection(bookData, x)) = TOC
        /\ (x \in SectionIds(bookData) /\ IsLast(bookData, x)) =>
               nextSection(bookData, x) = Null

\* C11 witness: the user has gone to the table of contents of a book of
\* several sections.
C11_Witness ==
    /\ lastOp.name = "navigate"
    /\ isTOC(activeSectionId)
    /\ Len(FlatMapSections(bookData)) >= 2

\* C12: when the requested identifier is neither the table of contents nor
\* an identifier of the content model, the active section is the first
\* section of the first chapter, at chapter-relative index 0.
C12_LookupMissFallback ==
    LET x == activeSectionId
        info == activeChapterInfo(bookData, x)
    IN  (~isTOC(x) /\ x \notin SectionIds(bookData)) =>
            /\ info # Null
            /\ info.section = bookData[1].sections[1]
            /\ info.index = 0
            /\ info.title = bookData[1].title
            /\ info.total = Len(bookData[1].sections)
            /\ activeSection(bookData, x) = bookData[1].sections[1]
            /\ ReaderMounted(bookData, x)
            /\ synthRef

\* C12 witness: the application is on an identifier that a book of several
\* chapters does not contain.
C12_Witness ==
    /\ ~isTOC(activeSectionId)
    /\ activeSectionId \notin SectionIds(bookData)
    /\ Len(bookData) >= 2
    /\ activeSection(bookData, activeSectionId).id = "s2"

ToggledTwice == lastOp.name = "toggleBookmark" /\ lastOp.event.twice

SetOf(list) == { list[i] : i \in 1..Len(list) }

\* C13 as stated: toggling an identifier twice in succession returns the
\* bookmark list to its original contents and its original order, whether
\* the identifier was absent or already bookmarked.
C13_ToggleTwiceIdentity ==
    ToggledTwice => bookmarks = lastOp.event.original

\* C13, amended: toggling an identifier twice in succession returns the
\* bookmark list to the same set of identifiers. When the identifier was
\* absent the list is the original list, order included. When it was
\* bookmarked the list is the original without every occurrence of the
\* identifier, in the original order, followed by the identifier: the
\* original list only if the identifier was its last entry and nowhere else.
C13_ToggleTwice ==
    ToggledTwice =>
        LET original  == lastOp.event.original
            sectionId == lastOp.event.sectionId
        IN  /\ SetOf(bookmarks) = SetOf(original)
            /\ ~Includes(original, sectionId) => bookmarks = original
            /\ Includes(original, sectionId) =>
                   /\ bookmarks = Append(SelectSeq(original,
                                                   LAMBDA id : id # sectionId),
                                         sectionId)
                   /\ bookmarks = original <=>
                          /\ original[Len(original)] = sectionId
                          /\ \A i \in 1..(Len(original) - 1) :
                                 original[i] # sectionId

\* Two toggles in succession of an identifier that was bookmarked ahead of
\* another one: it has moved to the end of the list.
C13_Witness ==
    /\ ToggledTwice
    /\ Len(lastOp.event.original) >= 2
    /\ lastOp.event.original[1] = lastOp.event.sectionId
    /\ bookmarks # lastOp.event.original
    /\ bookmarks[Len(bookmarks)] = lastOp.event.sectionId
\* C14: in every reachable state, from startup (whatever the storage
\* holds) through any sequence of increase and decrease calls, the font-size
\* level of the running application is an integer from 0 to N - 1, N the
\* number of size classes.
C14_FontSizeInRange ==
    uncaught = "none" =>
        /\ ~fontSizeIndex.nan
        /\ fontSizeIndex.val \in 0..(Len(FONT_SIZES) - 1)

\* C15: at startup each of the three values is loaded on its own, and a
\* value that is absent, unreadable or unparsable in storage gives its
\* default: level 2, light theme, no bookmarks; a session that finds nothing
\* stored starts with exactly these (looked at while the storage accepts
\* the writes that follow the first render).
C15_DefaultsOnBadStorage ==
    (lastOp.name = "init" /\ uncaught = "none") =>
        /\ loaded.fontSizeIndex \in {Absent, Throws, Text("abc"), Text("")} =>
               fontSizeIndex = Num(DefaultFontSizeIndex)
        /\ loaded.darkMode \in {Absent, Throws, Text("yes")} => ~isDarkMode
        /\ loaded.bookmarks \in {Absent, Throws, Text(""), Text("[\"s2\"")} =>
               bookmarks = << >>

\* C16: when the write to storage fails after a change of the font-size
\* level, the theme or the bookmarks, no error propagates to the
\* application.
C16_WriteFailureSwallowed ==
    ( /\ lastOp.name \in {"increaseFont", "decreaseFont", "toggleDarkMode",
                          "toggleBookmark"}
      /\ ~storageWritable ) =>
        uncaught = "none"
\* The lines of a text: what stands before each line break, and what is
\* left after the last one if anything is.
RECURSIVE SplitLines(_, _, _)
SplitLines(s, i, line) ==
    IF i > Len(s) THEN (IF line = "" THEN << >> ELSE << line >>)
    ELSE IF Char(s, i) = "\n" THEN << line >> \o SplitLines(s, i + 1, "")
    ELSE SplitLines(s, i + 1, line \o Char(s, i))

\* What a section has to say after its title: the text of each block that is
\* not a footnote, a list giving its items, in document order.
RECURSIVE Spoken(_)
Spoken(content) ==
    IF content = << >> THEN << >>
    ELSE LET block == Head(content)
         IN  (IF block.type = "footnote" THEN << >>
              ELSE IF block.type = "list" THEN block.items
              ELSE << block.text >>)
             \o Spoken(Tail(content))

RECURSIVE CountItems(_)
CountItems(content) ==
    IF content = << >> THEN 0
    ELSE (IF Head(content).type = "list" THEN Len(Head(content).items) ELSE 0)
         + CountItems(Tail(content))

StartsWith(s, prefix) ==
    Len(s) >= Len(prefix) /\ SubSeq(s, 1, Len(prefix)) = prefix

\* C17: the narration text of the section shown is its title, then the text
\* of each content block in document order, each on a line of its own, a
\* list giving one line per item and a footnote none; the lines after the
\* title (and the empty line that follows it) are as many as the plain,
\* header and quote blocks plus all list items. The text handed to the host
\* by play() is this text.
C17_NarrationText ==
    ReaderMounted(bookData, activeSectionId) =>
        LET section == activeSection(bookData, activeSectionId)
            text    == extractText(section)
            lines   == SplitLines(text, 1, "")
            body    == SubSeq(lines, 3, Len(lines))
            spoken  == Spoken(section.content)
            blocks  == { i \in 1..Len(section.content) :
                            section.content[i].type \in {"string", "header", "quote"} }
        IN  /\ Len(lines) >= 2
            /\ StartsWith(lines[1], section.title)
            /\ Len(lines[1]) = Len(section.title) + 2
            /\ lines[2] = ""
            /\ Char(text, Len(text)) = "\n"
            /\ Len(body) = Cardinality(blocks) + CountItems(section.content)
            /\ Len(body) = Len(spoken)
            /\ \A i \in 1..Len(body) :
                   /\ StartsWith(body[i], spoken[i])
                   /\ Len(body[i]) <= Len(spoken[i]) + 2
            /\ \A i \in 1..Len(hostQueue) :
                   hostQueue[i].section = section.id => hostQueue[i].len = Len(text)

\* play() has handed the host the text of a section with a list of two
\* items, a footnote and a paragraph.
C17_Witness ==
    /\ lastOp.name = "play"
    /\ hostQueue # << >>
    /\ LET content == activeSection(bookData, activeSectionId).content
       IN  /\ Len(content) = MaxBlocks
           /\ \E i, j, k \in 1..Len(content) :
                  /\ content[i].type = "list" /\ Len(content[i].items) = 2
                  /\ content[j].type = "footnote"
                  /\ content[k].type = "string"
    /\ Head(hostQueue).len
           = Len(extractText(activeSection(bookData, activeSectionId)))

====
